---------------------------- MODULE Spec2Model ----------------------------
(***************************************************************************)
(* Model of src/src/App.js: the worm-like-chain generator                  *)
(* calculateWLCChain, the per-frame driver DNAModel and the slider state   *)
(* of App.                                                                 *)
(*                                                                         *)
(* JavaScript numbers are modelled as binary floating-point values with    *)
(* the exponent range of an IEEE-754 double and a mantissa narrowed to     *)
(* MantissaBits bits, rounded to nearest (ties to even), with NaN and the  *)
(* two infinities.  Zero carries no sign.  Values whose mantissa fits      *)
(* (small integers, dyadic fractions) are computed exactly, as in a        *)
(* double; other values are rounded more coarsely than a double rounds     *)
(* them.                                                                   *)
(***************************************************************************)
EXTENDS Integers, Sequences, FiniteSets

(***************************************************************************)
(* Numbers                                                                 *)
(***************************************************************************)
MantissaBits == 12

MaxExponent == 1024

MinExponent == -1074

Abs(n) == IF n < 0 THEN -n ELSE n

Sgn(n) == IF n < 0 THEN -1 ELSE 1

NaN == [k |-> "nan", m |-> 0, e |-> 0]

Inf(s) == [k |-> "inf", m |-> s, e |-> 0]

PosInf == Inf(1)

Zero == [k |-> "fin", m |-> 0, e |-> 0]

IsNaN(a) == a.k = "nan"

IsFinite(a) == a.k = "fin"

IsZero(a) == a.k = "fin" /\ a.m = 0

RECURSIVE BitLenSearch(_, _, _)
BitLenSearch(n, lo, hi) ==
  IF lo = hi THEN lo
  ELSE IF n < 2 ^ ((lo + hi) \div 2)
       THEN BitLenSearch(n, lo, (lo + hi) \div 2)
       ELSE BitLenSearch(n, (lo + hi) \div 2 + 1, hi)

\* the least k with n < 2^k, for 0 <= n < 2^31
BitLen(n) == BitLenSearch(n, 0, 31)

\* quotient q and remainder r of a division by 2 * half, rounded to
\* nearest, ties to even
RoundQuotient(q, r, half) ==
  IF r > half \/ (r = half /\ q % 2 = 1) THEN q + 1 ELSE q

\* mag / 2^k rounded to nearest, ties to even (k >= 1)
RoundShift(mag, k) ==
  RoundQuotient(mag \div (2 ^ k), mag % (2 ^ k), 2 ^ (k - 1))

\* s * m * 2^e with m already MantissaBits wide: overflow gives an infinity,
\* underflow gives zero
Pack(s, m, e) ==
  IF e + MantissaBits > MaxExponent THEN Inf(s)
  ELSE IF e + MantissaBits - 1 < MinExponent THEN Zero
  ELSE [k |-> "fin", m |-> s * m, e |-> e]

\* s * q * 2^e, where rounding may have carried q up to 2^MantissaBits
PackRounded(s, q, e) ==
  IF q = 2 ^ MantissaBits THEN Pack(s, 2 ^ (MantissaBits - 1), e + 1)
  ELSE Pack(s, q, e)

\* the number nearest to s * mag * 2^e, bl being the bit length of mag > 0
\* (a last odd bit of mag may stand for a discarded non-zero remainder)
NormBits(s, mag, e, bl) ==
  IF bl > MantissaBits
  THEN PackRounded(s, RoundShift(mag, bl - MantissaBits),
                   e + (bl - MantissaBits))
  ELSE Pack(s, mag * 2 ^ (MantissaBits - bl), e - (MantissaBits - bl))

Norm(s, mag, e) ==
  IF mag = 0 THEN Zero ELSE NormBits(s, mag, e, BitLen(mag))

\* Norm for a mag known to be bl or bl + 1 bits long
NormNear(s, mag, e, bl) ==
  NormBits(s, mag, e, IF mag >= 2 ^ bl THEN bl + 1 ELSE bl)

NormSigned(n, e) == Norm(Sgn(n), Abs(n), e)

FromInt(n) == NormSigned(n, 0)

One == FromInt(1)

FNeg(a) == IF a.k = "nan" THEN NaN ELSE [a EXCEPT !.m = -a.m]

\* hi + lo for finite non-zero numbers with hi.e >= lo.e
FAddAligned(hi, lo) ==
  IF hi.e - lo.e > MantissaBits + 2 THEN hi
  ELSE NormSigned(hi.m * (2 ^ (hi.e - lo.e)) + lo.m, lo.e)

FAdd(a, b) ==
  IF a.k = "nan" \/ b.k = "nan" THEN NaN
  ELSE IF a.k = "inf" THEN (IF b.k = "inf" /\ b.m # a.m THEN NaN ELSE a)
  ELSE IF b.k = "inf" THEN b
  ELSE IF a.m = 0 THEN b
  ELSE IF b.m = 0 THEN a
  ELSE IF a.e >= b.e THEN FAddAligned(a, b)
  ELSE FAddAligned(b, a)

FSub(a, b) == FAdd(a, FNeg(b))

FMul(a, b) ==
  IF a.k = "nan" \/ b.k = "nan" THEN NaN
  ELSE IF a.k = "inf" \/ b.k = "inf"
       THEN (IF a.m = 0 \/ b.m = 0 THEN NaN ELSE Inf(Sgn(a.m) * Sgn(b.m)))
  ELSE IF a.m = 0 \/ b.m = 0 THEN Zero
  ELSE NormNear(Sgn(a.m) * Sgn(b.m), Abs(a.m) * Abs(b.m), a.e + b.e,
                2 * MantissaBits - 1)

\* s * (num / den) * 2^e for mantissas num, den
FDivMantissa(s, num, den, e) ==
  NormNear(s, 2 * (num \div den) + (IF num % den = 0 THEN 0 ELSE 1), e - 1,
           MantissaBits + 3)

FDiv(a, b) ==
  IF a.k = "nan" \/ b.k = "nan" THEN NaN
  ELSE IF a.k = "inf" THEN (IF b.k = "inf" THEN NaN ELSE Inf(a.m * Sgn(b.m)))
  ELSE IF b.k = "inf" THEN Zero
  ELSE IF b.m = 0 THEN (IF a.m = 0 THEN NaN ELSE Inf(Sgn(a.m)))
  ELSE IF a.m = 0 THEN Zero
  ELSE FDivMantissa(Sgn(a.m) * Sgn(b.m), Abs(a.m) * 2 ^ (MantissaBits + 2),
                    Abs(b.m), a.e - b.e - (MantissaBits + 2))

\* n / d as a number (a decimal literal or slider value)
FromRatio(n, d) == FDiv(FromInt(n), FromInt(d))

IsNegative(a) == a.k # "nan" /\ a.m < 0

FLt(a, b) == IsNegative(FSub(a, b))

FLe(a, b) == a.k # "nan" /\ b.k # "nan" /\ ~FLt(b, a)

FAbs(a) == IF IsNegative(a) THEN FNeg(a) ELSE a

\* Newton's iteration from above: x is at least the root of n
RECURSIVE ISqrtNewton(_, _)
RECURSIVE ISqrtStep(_, _, _)
ISqrtStep(n, x, y) == IF y >= x THEN x ELSE ISqrtNewton(n, y)

ISqrtNewton(n, x) == ISqrtStep(n, x, (x + n \div x) \div 2)

\* floor of the square root of n, 0 < n < 2^28
ISqrt(n) == ISqrtNewton(n, 2 ^ 14)

\* the root r = ISqrt(n) of n, as the number nearest to sqrt(n) * 2^e
FSqrtRounded(n, r, e) ==
  NormNear(1, 2 * r + (IF r * r = n THEN 0 ELSE 1), e - 1, MantissaBits + 2)

\* sqrt(m * 2^e) for m > 0 and e even
FSqrtEven(m, e) ==
  FSqrtRounded(m * 2 ^ (MantissaBits + 2),
               ISqrt(m * 2 ^ (MantissaBits + 2)),
               (e - (MantissaBits + 2)) \div 2)

\* Math.sqrt
FSqrt(a) ==
  IF a.k = "nan" THEN NaN
  ELSE IF a.k = "inf" THEN (IF a.m > 0 THEN a ELSE NaN)
  ELSE IF a.m = 0 THEN Zero
  ELSE IF a.m < 0 THEN NaN
  ELSE IF (a.e % 2) # 0 THEN FSqrtEven(2 * a.m, a.e - 1)
  ELSE FSqrtEven(a.m, a.e)

\* x ** 0.5: as Math.sqrt, except that (-Infinity) ** 0.5 is +Infinity
PowHalf(a) == IF a.k = "inf" THEN PosInf ELSE FSqrt(a)

(***************************************************************************)
(* Math.sin and Math.cos: the argument is taken to FractionBits binary     *)
(* places, reduced modulo 2*pi and fed to Bhaskara's rational              *)
(* approximation 16y(pi-y) / (5pi^2 - 4y(pi-y)) on [0, pi] (absolute       *)
(* error below 0.002).  sin(0) = 0 and cos(0) = 1 come out exactly.  The   *)
(* argument time + i stays far below 2^18 in every run.                    *)
(***************************************************************************)
FractionBits == 12

PiFixed == 12868

\* a * 2^FractionBits rounded to an integer (finite a, |a| < 2^18)
ToFixed(a) ==
  IF a.m = 0 THEN 0
  ELSE IF a.e + FractionBits >= 0 THEN a.m * 2 ^ (a.e + FractionBits)
  ELSE IF -(a.e + FractionBits) > MantissaBits + 1 THEN 0
  ELSE Sgn(a.m) * RoundShift(Abs(a.m), -(a.e + FractionBits))

\* sin(y) for 0 <= y <= pi, from p = y * (pi - y)
SinHalfWave(p) ==
  FDiv(FromInt(16 * p), FromInt(5 * PiFixed * PiFixed - 4 * p))

\* sin(r) for 0 <= r < 2 * pi
SinReduced(r) ==
  IF r > PiFixed THEN FNeg(SinHalfWave((r - PiFixed) * (2 * PiFixed - r)))
  ELSE SinHalfWave(r * (PiFixed - r))

SinFixed(x) == SinReduced(x % (2 * PiFixed))

Sin(a) == IF a.k # "fin" THEN NaN ELSE SinFixed(ToFixed(a))

Cos(a) == IF a.k # "fin" THEN NaN ELSE SinFixed(ToFixed(a) + PiFixed \div 2)

(***************************************************************************)
(* THREE.Vector3                                                           *)
(***************************************************************************)
Vector3(x, y, z) == [x |-> x, y |-> y, z |-> z]

VAdd(v, w) == Vector3(FAdd(v.x, w.x), FAdd(v.y, w.y), FAdd(v.z, w.z))

VMultiplyScalar(v, s) == Vector3(FMul(v.x, s), FMul(v.y, s), FMul(v.z, s))

VLength(v) ==
  FSqrt(FAdd(FAdd(FMul(v.x, v.x), FMul(v.y, v.y)), FMul(v.z, v.z)))

\* divideScalar(s) is multiplyScalar(1 / s)
VDivideScalar(v, s) == VMultiplyScalar(v, FDiv(One, s))

\* len || 1: 0 and NaN are falsy
OrOne(len) == IF IsNaN(len) \/ IsZero(len) THEN One ELSE len

\* normalize() is divideScalar(length() || 1)
VNormalize(v) == VDivideScalar(v, OrOne(VLength(v)))

VIsFinite(v) == IsFinite(v.x) /\ IsFinite(v.y) /\ IsFinite(v.z)

VNonFinite(v) == ~IsFinite(v.x) /\ ~IsFinite(v.y) /\ ~IsFinite(v.z)

(***************************************************************************)
(* calculateWLCChain                                                       *)
(***************************************************************************)
Half == FromRatio(1, 2)

Origin == Vector3(Zero, Zero, Zero)

\* mutant: noiseLevel left out of the product
ThermalFluctuationWithoutNoise(temperature, persistenceLength, noiseLevel) ==
  PowHalf(FDiv(temperature, persistenceLength))

\* (temperature / persistenceLength) ** 0.5 * noiseLevel
ThermalFluctuation(temperature, persistenceLength, noiseLevel) ==
  FMul(PowHalf(FDiv(temperature, persistenceLength)), noiseLevel)

Fluctuation(time, i, thermalFluctuation) ==
  Vector3(FMul(FMul(Sin(FAdd(time, FromInt(i))), Half), thermalFluctuation),
          FMul(FMul(Cos(FAdd(time, FromInt(i))), Half), thermalFluctuation),
          FMul(FMul(Sin(FMul(time, Half)), Half), thermalFluctuation))

\* new THREE.Vector3(externalForce.x, externalForce.y, externalForce.z)
NewForce(externalForce) ==
  Vector3(externalForce.x, externalForce.y, externalForce.z)

\* mutant: force is the caller's object itself, not a copy of it
CallerForceAliased(externalForce, finalForce) == finalForce

\* The caller's externalForce object after the call: force is a fresh
\* vector, so scaling force in place leaves the argument as it was passed.
CallerForceAfter(externalForce, finalForce) == externalForce

\* mutant: a zero bendingRigidity is skipped instead of divided by
ReciprocalGuarded(bendingRigidity) ==
  IF IsZero(bendingRigidity) THEN Zero ELSE FDiv(One, bendingRigidity)

\* 1 / bendingRigidity
Reciprocal(bendingRigidity) == FDiv(One, bendingRigidity)

\* force.multiplyScalar(1 / bendingRigidity): scales force itself and
\* returns it
MultiplyForce(force, bendingRigidity) ==
  VMultiplyScalar(force, Reciprocal(bendingRigidity))

\* mutant: the scaling works on a clone and leaves force as it was
ForceUnscaled(force, scaled) == force

\* the force vector the next iteration starts from: the same, scaled, object
ForceAfterScaling(force, scaled) == scaled

\* direction.add(fluctuation).normalize()
FluctuatedDirection(direction, fluctuation) ==
  VNormalize(VAdd(direction, fluctuation))

\* mutant: the direction is normalized again after the force is added
ForcedDirectionRenormalized(unit, scaled) == VNormalize(VAdd(unit, scaled))

\* direction.add(force.multiplyScalar(...)): no normalize() follows
ForcedDirection(unit, scaled) == VAdd(unit, scaled)

\* mutant: without slice() every entry is the one array that is added to
PushPointAliased(points, direction) ==
  [j \in 1 .. Len(points) + 1 |-> VAdd(points[Len(points)], direction)]

\* newPoint = points[i - 1].slice(); newPoint += direction; points.push
PushPoint(points, direction) ==
  Append(points, VAdd(points[Len(points)], direction))

\* mutant: the loop condition is i <= length
LastIterationInclusive(length) == length

\* the last i for which the loop condition i < length holds
LastIteration(length) == length - 1

\* the loop's variables after lines 45-50, direction being the post-force
\* direction
AfterPush(st, unit, scaled, direction) ==
  [points    |-> PushPoint(st.points, direction),
   direction |-> direction,
   force     |-> ForceAfterScaling(st.force, scaled),
   steps     |-> Append(st.steps, [unit      |-> unit,
                                   added     |-> scaled,
                                   direction |-> direction])]

\* line 43 and what follows
AfterForce(st, unit, scaled) ==
  AfterPush(st, unit, scaled, ForcedDirection(unit, scaled))

\* one pass through the loop body, lines 36-50
LoopBody(i, time, bendingRigidity, thermalFluctuation, st) ==
  AfterForce(st,
             FluctuatedDirection(st.direction,
                                 Fluctuation(time, i, thermalFluctuation)),
             MultiplyForce(st.force, bendingRigidity))

\* Iterations lo .. hi of the loop, in order.  The range is split in two
\* only to keep the evaluation shallow: the first half is computed in full
\* before the second half starts from its result.
RECURSIVE WLCLoop(_, _, _, _, _, _)
RECURSIVE WLCLoopRest(_, _, _, _, _, _)
WLCLoopRest(mid, hi, time, bendingRigidity, thermalFluctuation, first) ==
  IF Len(first.points) > 0
  THEN WLCLoop(mid + 1, hi, time, bendingRigidity, thermalFluctuation, first)
  ELSE first

WLCLoop(lo, hi, time, bendingRigidity, thermalFluctuation, st) ==
  IF lo > hi THEN st
  ELSE IF lo = hi
       THEN LoopBody(lo, time, bendingRigidity, thermalFluctuation, st)
  ELSE WLCLoopRest((lo + hi) \div 2, hi, time, bendingRigidity,
                   thermalFluctuation,
                   WLCLoop(lo, (lo + hi) \div 2, time, bendingRigidity,
                           thermalFluctuation, st))

\* what the call hands back: the points, what each iteration computed
\* (steps) and the caller's externalForce object as the call leaves it
ChainResult(externalForce, st) ==
  [points        |-> st.points,
   steps         |-> st.steps,
   externalForce |-> CallerForceAfter(externalForce, st.force)]

calculateWLCChain(length, persistenceLength, temperature, time, bendingRigidity, noiseLevel, externalForce) ==
  ChainResult(externalForce,
              WLCLoop(1, LastIteration(length), time, bendingRigidity,
                      ThermalFluctuation(temperature, persistenceLength,
                                         noiseLevel),
                      [points    |-> <<Origin>>,
                       direction |-> Vector3(One, Zero, Zero),
                       force     |-> NewForce(externalForce),
                       steps     |-> <<>>]))

(***************************************************************************)
(* State                                                                   *)
(***************************************************************************)
VARIABLES
  length, persistenceLength, temperature, bendingRigidity, noiseLevel,
  externalForce,  \* App's useState values
  props,          \* the props the current useFrame callback of DNAModel closes over
  timeRef,        \* DNAModel's timeRef.current
  points,         \* the point sequence last returned (DNAModel's points state)
  lastCall,       \* <<arguments of the latest calculateWLCChain call>>, or <<>>
  steps,          \* what each loop iteration of the latest direct call computed
  firstPoints,    \* what the first direct call with the harness arguments returned
  ticks,          \* frames run so far
  edits,          \* slider edits so far
  lastEditTick,   \* value of ticks at the latest edit, -1 before any
  history         \* the direct calls so far, in order: "generate" or "other"

vars == <<length, persistenceLength, temperature, bendingRigidity, noiseLevel,
          externalForce, props, timeRef, points, lastCall, steps, firstPoints,
          ticks, edits, lastEditTick, history>>

Args(len, pl, temp, time, br, nl, ef) ==
  [length |-> len, persistenceLength |-> pl, temperature |-> temp,
   time |-> time, bendingRigidity |-> br, noiseLevel |-> nl,
   externalForce |-> ef]

IntVector(x, y, z) == Vector3(FromInt(x), FromInt(y), FromInt(z))

(***************************************************************************)
(* App: the sliders.  A range input reports the position asked of it      *)
(* brought into [min, max]: below min it reports min, above max it reports *)
(* max.  The positions tried are the ends of each range and the positions  *)
(* one step outside them.  Sliders with step 0.1 are counted in tenths.    *)
(***************************************************************************)
MaxEvents == 3

LengthMin == 50

LengthMax == 200

PersistenceLengthMin == 10

PersistenceLengthMax == 100

TemperatureMin == 100

TemperatureMax == 500

BendingRigidityMinTenths == 1

BendingRigidityMaxTenths == 100

NoiseLevelMinTenths == 1

NoiseLevelMaxTenths == 20

ExternalForceMinTenths == -100

ExternalForceMaxTenths == 100

\* mutant: the input reports any position asked of it
RangeValueUnbounded(v, min, max) == v

\* the value of <input type="range" min max> when position v is asked for
RangeValue(v, min, max) == IF v < min THEN min ELSE IF v > max THEN max ELSE v

LengthValues ==
  {RangeValue(v, LengthMin, LengthMax) : v \in {LengthMin - 1, LengthMin}}

PersistenceLengthValues ==
  {RangeValue(v, PersistenceLengthMin, PersistenceLengthMax) :
     v \in {PersistenceLengthMin - 1, PersistenceLengthMin}}

TemperatureValues ==
  {RangeValue(v, TemperatureMin, TemperatureMax) :
     v \in {TemperatureMax, TemperatureMax + 1}}

BendingRigidityValues ==
  {RangeValue(v, BendingRigidityMinTenths, BendingRigidityMaxTenths) :
     v \in {BendingRigidityMinTenths - 1, BendingRigidityMaxTenths + 1}}

NoiseLevelValues ==
  {RangeValue(v, NoiseLevelMinTenths, NoiseLevelMaxTenths) :
     v \in {NoiseLevelMaxTenths, NoiseLevelMaxTenths + 1}}

ExternalForceXValues ==
  {RangeValue(v, ExternalForceMinTenths, ExternalForceMaxTenths) :
     v \in {ExternalForceMaxTenths, ExternalForceMaxTenths + 1}}

ExternalForceYValues ==
  {RangeValue(v, ExternalForceMinTenths, ExternalForceMaxTenths) :
     v \in {ExternalForceMinTenths - 1, ExternalForceMinTenths}}

ExternalForceZValues ==
  {RangeValue(v, ExternalForceMinTenths, ExternalForceMaxTenths) :
     v \in {ExternalForceMaxTenths, ExternalForceMaxTenths + 1}}

\* parseInt(e.target.value)
ParseInt(v) == FromInt(v)

\* parseFloat(e.target.value) of a value given in tenths
ParseFloat(tenths) == FromRatio(tenths, 10)

\* The props DNAModel is rendered with (lines 85-92)
DNAModelProps(len, pl, temp, br, nl, ef) ==
  [length |-> len, persistenceLength |-> pl, temperature |-> temp,
   bendingRigidity |-> br, noiseLevel |-> nl, externalForce |-> ef]

\* mutant: the callback registered at the first render keeps being called
UseFramePropsStale(old, new) == old

\* useFrame is handed a new closure on every render of DNAModel and calls
\* the latest one: after a render the callback reads the new props.
UseFrameProps(old, new) == new

Init ==
  /\ length = 100
  /\ persistenceLength = FromInt(50)
  /\ temperature = FromInt(300)
  /\ bendingRigidity = FromInt(1)
  /\ noiseLevel = FromInt(1)
  /\ externalForce = IntVector(0, 0, 0)
  /\ props = DNAModelProps(100, FromInt(50), FromInt(300), FromInt(1),
                           FromInt(1), IntVector(0, 0, 0))
  /\ timeRef = Zero
  /\ points = <<>>
  /\ lastCall = <<>>
  /\ steps = <<>>
  /\ firstPoints = <<>>
  /\ ticks = 0
  /\ edits = 0
  /\ lastEditTick = -1
  /\ history = <<>>

\* A state setter followed by the re-render of App and DNAModel it causes
Rerender(len, pl, temp, br, nl, ef) ==
  /\ ticks + edits < MaxEvents
  /\ length' = len
  /\ persistenceLength' = pl
  /\ temperature' = temp
  /\ bendingRigidity' = br
  /\ noiseLevel' = nl
  /\ externalForce' = ef
  /\ props' = UseFrameProps(props, DNAModelProps(len, pl, temp, br, nl, ef))
  /\ edits' = edits + 1
  /\ lastEditTick' = ticks
  /\ UNCHANGED <<timeRef, points, lastCall, steps, firstPoints, ticks, history>>

SetLength ==
  \E v \in LengthValues :
    Rerender(v, persistenceLength, temperature, bendingRigidity, noiseLevel,
             externalForce)

SetPersistenceLength ==
  \E v \in PersistenceLengthValues :
    Rerender(length, ParseInt(v), temperature, bendingRigidity, noiseLevel,
             externalForce)

SetTemperature ==
  \E v \in TemperatureValues :
    Rerender(length, persistenceLength, ParseInt(v), bendingRigidity,
             noiseLevel, externalForce)

SetBendingRigidity ==
  \E v \in BendingRigidityValues :
    Rerender(length, persistenceLength, temperature, ParseFloat(v),
             noiseLevel, externalForce)

SetNoiseLevel ==
  \E v \in NoiseLevelValues :
    Rerender(length, persistenceLength, temperature, bendingRigidity,
             ParseFloat(v), externalForce)

SetExternalForceX ==
  \E v \in ExternalForceXValues :
    Rerender(length, persistenceLength, temperature, bendingRigidity,
             noiseLevel, [externalForce EXCEPT !.x = ParseFloat(v)])

SetExternalForceY ==
  \E v \in ExternalForceYValues :
    Rerender(length, persistenceLength, temperature, bendingRigidity,
             noiseLevel, [externalForce EXCEPT !.y = ParseFloat(v)])

SetExternalForceZ ==
  \E v \in ExternalForceZValues :
    Rerender(length, persistenceLength, temperature, bendingRigidity,
             noiseLevel, [externalForce EXCEPT !.z = ParseFloat(v)])

(***************************************************************************)
(* DNAModel: the frame callback                                            *)
(***************************************************************************)
TimeStep == FromRatio(1, 100)

\* timeRef.current += 0.01
AdvanceTime(t) == FAdd(t, TimeStep)

\* mutant: the time is read before the increment
CallTimeBefore(before, after) == before

\* the time argument of the call: timeRef.current, read after the increment
CallTime(before, after) == after

\* setPoints(newPoints), with the call's arguments recorded.  The prop
\* externalForce is the object App holds in its state.
Publish(now, t, r) ==
  /\ timeRef' = now
  /\ lastCall' = <<Args(props.length, props.persistenceLength,
                        props.temperature, t, props.bendingRigidity,
                        props.noiseLevel, props.externalForce)>>
  /\ points' = r.points
  /\ props' = [props EXCEPT !.externalForce = r.externalForce]
  /\ externalForce' = IF externalForce = props.externalForce
                      THEN r.externalForce
                      ELSE externalForce

CallAt(now, t) ==
  Publish(now, t,
          calculateWLCChain(props.length, props.persistenceLength,
                            props.temperature, t, props.bendingRigidity,
                            props.noiseLevel, props.externalForce))

FrameAt(now) == CallAt(now, CallTime(timeRef, now))

Frame ==
  /\ ticks + edits < MaxEvents
  /\ FrameAt(AdvanceTime(timeRef))
  /\ ticks' = ticks + 1
  /\ UNCHANGED <<length, persistenceLength, temperature, bendingRigidity,
                 noiseLevel, steps, firstPoints, edits, lastEditTick, history>>

Next ==
  \/ SetLength
  \/ SetPersistenceLength
  \/ SetTemperature
  \/ SetBendingRigidity
  \/ SetNoiseLevel
  \/ SetExternalForceX
  \/ SetExternalForceY
  \/ SetExternalForceZ
  \/ Frame

Spec == Init /\ [][Next]_vars

(***************************************************************************)
(* calculateWLCChain called directly: the arguments are drawn from small   *)
(* sets that reach past the sliders' ranges (length 0, persistenceLength   *)
(* 0, bendingRigidity 0 and negative, noiseLevel 0).  length, ...,         *)
(* externalForce and timeRef hold the arguments; externalForce is the      *)
(* object handed to every Generate call, props keeps the arguments as      *)
(* first chosen.                                                           *)
(***************************************************************************)
MaxLength == 4

MaxCalls == 3

LengthInputs == 0 .. MaxLength

PersistenceLengthInputs == {FromInt(0), FromInt(50)}

TemperatureInputs == {FromInt(300)}

TimeInputs == {Zero, FromRatio(1, 100), FromInt(1)}

BendingRigidityInputs ==
  {FromInt(0), FromRatio(1, 2), FromInt(1), FromInt(2), FromInt(-2)}

NoiseLevelInputs == {FromInt(0), FromInt(1)}

ExternalForceInputs ==
  {IntVector(0, 0, 0), IntVector(1, 0, 0), IntVector(-2, 0, 0),
   IntVector(1, -2, 1)}

\* the arguments of a call made between two Generate calls
OtherArgs ==
  Args(2, FromInt(50), FromInt(300), FromRatio(7, 100), FromInt(2),
       FromInt(1), IntVector(1, 1, 1))

InitChain ==
  /\ length \in LengthInputs
  /\ persistenceLength \in PersistenceLengthInputs
  /\ temperature \in TemperatureInputs
  /\ timeRef \in TimeInputs
  /\ bendingRigidity \in BendingRigidityInputs
  /\ noiseLevel \in NoiseLevelInputs
  /\ externalForce \in ExternalForceInputs
  /\ props = DNAModelProps(length, persistenceLength, temperature,
                           bendingRigidity, noiseLevel, externalForce)
  /\ points = <<>>
  /\ lastCall = <<>>
  /\ steps = <<>>
  /\ firstPoints = <<>>
  /\ ticks = 0
  /\ edits = 0
  /\ lastEditTick = -1
  /\ history = <<>>

Returned(r) ==
  /\ points' = r.points
  /\ steps' = r.steps
  /\ externalForce' = r.externalForce
  /\ firstPoints' = IF firstPoints = <<>> THEN r.points ELSE firstPoints

Generate ==
  /\ Len(history) < MaxCalls
  /\ Returned(calculateWLCChain(length, persistenceLength, temperature,
                                timeRef, bendingRigidity, noiseLevel,
                                externalForce))
  /\ lastCall' = <<Args(length, persistenceLength, temperature, timeRef,
                        bendingRigidity, noiseLevel, externalForce)>>
  /\ history' = Append(history, "generate")
  /\ UNCHANGED <<length, persistenceLength, temperature, bendingRigidity,
                 noiseLevel, props, timeRef, ticks, edits, lastEditTick>>

ReturnedOther(r) ==
  /\ points' = r.points
  /\ steps' = r.steps

CallWith(a) ==
  calculateWLCChain(a.length, a.persistenceLength, a.temperature, a.time,
                    a.bendingRigidity, a.noiseLevel, a.externalForce)

GenerateOther ==
  /\ Len(history) < MaxCalls
  /\ ReturnedOther(CallWith(OtherArgs))
  /\ lastCall' = <<OtherArgs>>
  /\ history' = Append(history, "other")
  /\ UNCHANGED <<length, persistenceLength, temperature, bendingRigidity,
                 noiseLevel, externalForce, props, timeRef, firstPoints,
                 ticks, edits, lastEditTick>>

NextChain ==
  \/ Generate
  \/ GenerateOther

SpecChain == InitChain /\ [][NextChain]_vars

\* the arguments Generate passes, with the externalForce first chosen
HarnessArgs ==
  Args(props.length, props.persistenceLength, props.temperature, timeRef,
       props.bendingRigidity, props.noiseLevel, props.externalForce)

\* the latest call was a Generate call
Generated == history # <<>> /\ history[Len(history)] = "generate"

(***************************************************************************)
(* Properties of calculateWLCChain, checked under SpecChain                *)
(***************************************************************************)
\* the arguments of the latest call
CallArgs == lastCall[1]

RECURSIVE FPow(_, _)
FPow(a, n) == IF n = 0 THEN One ELSE FMul(FPow(a, n - 1), a)

IsPositive(a) == FLt(Zero, a)

IsNonZero(a) == IsFinite(a) /\ a.m # 0

\* points[i + 1] - points[i]
Segment(i) ==
  Vector3(FSub(points[i + 1].x, points[i].x),
          FSub(points[i + 1].y, points[i].y),
          FSub(points[i + 1].z, points[i].z))

\* C1: for every length >= 1 the call returns exactly length points, the
\* origin and one point pushed by each of the length - 1 loop iterations.
C1_ReturnsLengthPoints ==
  (lastCall # <<>> /\ CallArgs.length >= 1) =>
    /\ Len(points) = CallArgs.length
    /\ Len(steps) = CallArgs.length - 1

C1_Witness ==
  /\ Generated
  /\ CallArgs.length = MaxLength
  /\ Len(points) = MaxLength
  /\ CallArgs.noiseLevel = One
  /\ points[MaxLength] # points[MaxLength - 1]

\* C2: the first returned point is the origin (0,0,0) whatever the
\* arguments; pushing later points leaves it as it is.
C2_FirstPointIsOrigin == lastCall # <<>> => points[1] = Origin

C2_Witness ==
  /\ Generated
  /\ Len(points) >= 3
  /\ points[1] = Origin
  /\ points[3] # points[2]
  /\ points[2] # Origin

\* C3: with externalForce = (f,0,0), noiseLevel = 0 and a non-zero
\* bendingRigidity b, the force added to the direction at loop step i is
\* (f * (1/b)^i, 0, 0).
C3_ForceDecaysGeometrically ==
  (/\ lastCall # <<>>
   /\ CallArgs.noiseLevel = Zero
   /\ CallArgs.externalForce.y = Zero
   /\ CallArgs.externalForce.z = Zero
   /\ IsNonZero(CallArgs.bendingRigidity)) =>
    \A i \in 1 .. Len(steps) :
      steps[i].added =
        Vector3(FMul(CallArgs.externalForce.x,
                     FPow(FDiv(One, CallArgs.bendingRigidity), i)),
                Zero, Zero)

C3_Witness ==
  /\ Generated
  /\ CallArgs.noiseLevel = Zero
  /\ CallArgs.externalForce = IntVector(1, 0, 0)
  /\ CallArgs.bendingRigidity = FromInt(2)
  /\ Len(steps) = 3
  /\ steps[1].added.x = FromRatio(1, 2)
  /\ steps[3].added.x = FromRatio(1, 8)

C7_ZeroRigidityGivesNonFinitePoints ==
  (/\ lastCall # <<>>
   /\ IsZero(CallArgs.bendingRigidity)
   /\ CallArgs.length >= 1) =>
    /\ Len(points) = CallArgs.length
    /\ points[1] = Origin
    /\ \A i \in 2 .. Len(points) : VNonFinite(points[i])

C7_Witness ==
  /\ Generated
  /\ IsZero(CallArgs.bendingRigidity)
  /\ CallArgs.externalForce = Origin
  /\ IsPositive(CallArgs.persistenceLength)
  /\ Len(points) = MaxLength
  /\ VNonFinite(points[2])
  /\ VNonFinite(points[MaxLength])

TimeTolerance == FromRatio(1, 10000)

\* C4: after N frames the accumulated time is N steps of 0.01 and it is the
\* time the N-th call receives (0.01 for the first call); edits, which
\* leave N as it is, neither decrease nor reset it.
C4_TimeFollowsFrames ==
  /\ ticks = 0 => (timeRef = Zero /\ lastCall = <<>>)
  /\ ticks = 1 => timeRef = TimeStep
  /\ ticks > 0 =>
       /\ CallArgs.time = timeRef
       /\ FLe(FAbs(FSub(timeRef, FMul(FromInt(ticks), TimeStep))),
              TimeTolerance)

C4_Witness ==
  /\ ticks = 2
  /\ edits = 1
  /\ lastEditTick = 1
  /\ timeRef = FAdd(TimeStep, TimeStep)
  /\ CallArgs.time = timeRef

\* C8: whatever the sliders were set to, persistenceLength > 0,
\* bendingRigidity # 0 and length >= 1 hold of App's state and of the
\* arguments of every call.
C8_CallsStayInDomain ==
  /\ IsPositive(persistenceLength)
  /\ IsNonZero(bendingRigidity)
  /\ length >= 1
  /\ lastCall # <<>> =>
       /\ IsPositive(CallArgs.persistenceLength)
       /\ IsNonZero(CallArgs.bendingRigidity)
       /\ CallArgs.length >= 1

C8_Witness ==
  /\ lastCall # <<>>
  /\ edits = 2
  /\ CallArgs.persistenceLength = ParseInt(PersistenceLengthMin)
  /\ CallArgs.bendingRigidity = ParseFloat(BendingRigidityMinTenths)

\* C9: a frame that follows the latest edit is computed from App's current
\* six values, all of them, and publishes a sequence of the current length.
C9_NextFrameUsesEdits ==
  (ticks > 0 /\ lastEditTick < ticks) =>
    /\ CallArgs = Args(length, persistenceLength, temperature, timeRef,
                       bendingRigidity, noiseLevel, externalForce)
    /\ Len(points) = length

C9_Witness ==
  /\ ticks = 2
  /\ lastEditTick = 1
  /\ length = LengthMin
  /\ CallArgs.length = LengthMin
  /\ Len(points) = LengthMin

=============================================================================
